---- MODULE Spec2Model ----
(***************************************************************************)
(* A model of coco2yolo.py: the class Coco2Yolo, which reads a COCO        *)
(* annotation document and writes one YOLO label file per image.           *)
(*                                                                         *)
(* Python values are modelled as follows.                                  *)
(*   - a dict is a sequence of <<key, value>> pairs with distinct keys, in *)
(*     insertion order (Python dicts keep insertion order; assigning to an *)
(*     existing key keeps its slot);                                       *)
(*   - a path / file name is a sequence of one-character strings;          *)
(*   - a float is an exact rational with a flag telling whether the double *)
(*     is that rational exactly; '{:.6f}' renders it as the nearest whole  *)
(*     number of millionths, and where the rational lies midway between    *)
(*     two and the double is inexact, either neighbour can be written;     *)
(*   - an output line "<k> <cx> <cy> <w> <h>\n" is the tuple               *)
(*     <<k, cx, cy, w, h>> with the four box fields in millionths;         *)
(*   - the file system below the output folder is a function from file     *)
(*     names to sequences of lines.                                        *)
(***************************************************************************)
EXTENDS Integers, Sequences, FiniteSets, TLC

VARIABLES
    pc,                 \* position of the run: the next method to execute
    json_file,          \* the input path: [exists, doc]
    dir_exists,         \* whether the output folder exists
    dir_before,         \* whether it existed before the run (never changes)
    fs,                 \* the files in the output folder: name -> lines
    fs_before,          \* the files before the run (never changes)
    labels,             \* self.__labels
    coco_id_name_map,   \* self.__coco_id_name_map
    coco_name_list,     \* self.__coco_name_list
    images_info,        \* convert(): images_info
    annotations_dict,   \* convert(): annotations
    gi,                 \* __save_txt_file: index of the group being written
    oi,                 \* __save_txt_file: index of the next obj, 0 = file not open
    err                 \* the exception that ended the run: [type, at]

vars == <<pc, json_file, dir_exists, dir_before, fs, fs_before, labels,
          coco_id_name_map, coco_name_list, images_info, annotations_dict,
          gi, oi, err>>

----------------------------------------------------------------------------
(* Bounds of the model.                                                    *)

MaxAnns == 3        \* annotations per document (Spec)
MaxFileAnns == 3    \* annotations per document (SpecFiles)
MaxFileImages == 2  \* images per document (SpecFiles)
MaxCats == 3        \* categories per document (SpecCat)
MaxCoord == 3       \* largest bbox coordinate drawn (SpecBox)
MaxDim == 3         \* largest image width / height drawn (SpecBox)

----------------------------------------------------------------------------
(* Python values.                                                          *)

None == "None"

NoError == [type |-> "none", at |-> "none"]

Raise(type, at) == [type |-> type, at |-> at]

(* dict: membership, d.get(k), d[k] = v, list(d.values()) *)
DictHas(d, k) == \E i \in DOMAIN d : d[i][1] = k

DictGet(d, k) ==
    IF DictHas(d, k)
    THEN d[CHOOSE i \in DOMAIN d : d[i][1] = k][2]
    ELSE None

DictSet(d, k, v) ==
    IF DictHas(d, k)
    THEN [i \in DOMAIN d |-> IF d[i][1] = k THEN <<k, v>> ELSE d[i]]
    ELSE Append(d, <<k, v>>)

(* a variant that keeps only the first slot of every value *)
DictValuesDedup(d) ==
    LET firsts == {i \in DOMAIN d : \A j \in 1..(i - 1) : d[j][2] # d[i][2]}
    IN  [n \in 1..Cardinality(firsts) |->
            d[CHOOSE i \in firsts : Cardinality({m \in firsts : m <= i}) = n][2]]

DictValues(d) == [i \in DOMAIN d |-> d[i][2]]

(* list.index(x): the zero-based position of the first element equal to x; *)
(* -1 stands for the ValueError raised when x is not in the list.          *)
ListIndexFound(list, x) ==
    (CHOOSE i \in DOMAIN list :
        list[i] = x /\ \A j \in DOMAIN list : list[j] = x => i <= j) - 1

(* a variant that answers 0 instead of raising *)
ListIndexOrZero(list, x) ==
    IF \E i \in DOMAIN list : list[i] = x
    THEN ListIndexFound(list, x)
    ELSE 0

ListIndex(list, x) ==
    IF \E i \in DOMAIN list : list[i] = x
    THEN ListIndexFound(list, x)
    ELSE -1

(* pathlib: Path(p).name and Path(p).stem *)
LastIndexOf(s, c) ==
    IF \E i \in DOMAIN s : s[i] = c
    THEN CHOOSE i \in DOMAIN s : s[i] = c /\ \A j \in DOMAIN s : s[j] = c => j <= i
    ELSE 0

PathName(p) == SubSeq(p, LastIndexOf(p, "/") + 1, Len(p))

PathStem(p) ==
    LET name == PathName(p)
        i == LastIndexOf(name, ".") - 1    \* name.rfind('.')
    IN  IF 0 < i /\ i < Len(name) - 1 THEN SubSeq(name, 1, i) ELSE name

TxtName(p) == PathStem(p) \o <<".", "t", "x", "t">>

(* Python floats.  A float is the exact rational num / den (den > 0)       *)
(* together with `exact`: whether the double the program holds is that     *)
(* rational exactly.  Integers and sums and products of exact values are   *)
(* exact at the magnitudes of the model; a quotient is exact when it is a  *)
(* dyadic rational, and otherwise the double is the nearest one, a         *)
(* rounding error away from the rational.                                  *)
Abs(n) == IF n < 0 THEN -n ELSE n

RECURSIVE GCD(_, _)
GCD(a, b) == IF b = 0 THEN a ELSE GCD(b, a % b)

RECURSIVE IsPow2(_)
IsPow2(m) == m = 1 \/ (m > 1 /\ m % 2 = 0 /\ IsPow2(m \div 2))

Dyadic(n, d) == IsPow2(d \div GCD(Abs(n), d))

Float(n) == [num |-> n, den |-> 1, exact |-> TRUE]

FloatAdd(a, b) ==
    [num |-> a.num * b.den + b.num * a.den, den |-> a.den * b.den,
     exact |-> a.exact /\ b.exact]

FloatMul(a, b) ==
    [num |-> a.num * b.num, den |-> a.den * b.den,
     exact |-> a.exact /\ b.exact]

FloatDiv(a, b) ==
    [num |-> a.num * b.den, den |-> a.den * b.num,
     exact |-> a.exact /\ b.exact /\ Dyadic(a.num * b.den, a.den * b.num)]

Decimals == 6

RECURSIVE Pow10(_)
Pow10(n) == IF n = 0 THEN 1 ELSE 10 * Pow10(n - 1)

(* '{:.6f}'.format(el), in millionths: the set of results the double can   *)
(* give.  The rendering is the multiple of a millionth nearest to the      *)
(* double.  The rounding error of an inexact double is far smaller than    *)
(* the distance of a rational of the model from the midpoint of two        *)
(* millionths, unless the rational is that midpoint: then an exact double  *)
(* goes to the even neighbour and an inexact one to either neighbour,      *)
(* depending on the side its rounding error falls.                         *)
Format6(el) ==
    LET n == el.num * Pow10(Decimals)
        q == n \div el.den
        r == n % el.den
    IN  IF 2 * r < el.den THEN {q}
        ELSE IF 2 * r > el.den THEN {q + 1}
        ELSE IF ~el.exact THEN {q, q + 1}
        ELSE IF q % 2 = 0 THEN {q} ELSE {q + 1}

----------------------------------------------------------------------------
(* The methods of Coco2Yolo.                                               *)

(* `self.__json_file_path.exists` without a call: a bound method object,   *)
(* which is always true, whatever the path.                                *)
ExistsAttr(file) == TRUE

(* __categories: the id -> name dict, filled in document order *)
RECURSIVE categories_loop(_, _, _)
categories_loop(cats, i, acc) ==
    IF i > Len(cats) THEN acc
    ELSE categories_loop(cats, i + 1, DictSet(acc, cats[i].id, cats[i].name))

categories(lbl) == categories_loop(lbl.categories, 1, <<>>)

(* __load_images_info: the id -> (filename, width, height) dict *)
RECURSIVE load_images_loop(_, _, _)
load_images_loop(imgs, i, acc) ==
    IF i > Len(imgs) THEN acc
    ELSE load_images_loop(imgs, i + 1,
            DictSet(acc, imgs[i].id,
                    <<imgs[i].file_name, imgs[i].width, imgs[i].height>>))

load_images_info(lbl) == load_images_loop(lbl.images, 1, <<>>)

(* a variant of __convert_bbox that clamps its results to [0, 1] *)
FloatClamp(r) ==
    IF r.num < 0 THEN Float(0) ELSE IF r.num > r.den THEN Float(1) ELSE r

convert_bbox_clamped(bbox, width, height) ==
    LET centerx == FloatAdd(Float(bbox[1]), FloatDiv(Float(bbox[3]), Float(2)))
        centery == FloatAdd(Float(bbox[2]), FloatDiv(Float(bbox[4]), Float(2)))
    IN  <<FloatClamp(FloatMul(centerx, FloatDiv(Float(1), Float(width)))),
          FloatClamp(FloatMul(centery, FloatDiv(Float(1), Float(height)))),
          FloatClamp(FloatMul(Float(bbox[3]), FloatDiv(Float(1), Float(width)))),
          FloatClamp(FloatMul(Float(bbox[4]), FloatDiv(Float(1), Float(height))))>>

(* __convert_bbox *)
convert_bbox(bbox, width, height) ==
    LET pos_x == Float(bbox[1])
        pos_y == Float(bbox[2])
        pos_w == Float(bbox[3])
        pos_h == Float(bbox[4])
        centerx == FloatAdd(pos_x, FloatDiv(pos_w, Float(2)))
        centery == FloatAdd(pos_y, FloatDiv(pos_h, Float(2)))
    IN  <<FloatMul(centerx, FloatDiv(Float(1), Float(width))),
          FloatMul(centery, FloatDiv(Float(1), Float(height))),
          FloatMul(pos_w, FloatDiv(Float(1), Float(width))),
          FloatMul(pos_h, FloatDiv(Float(1), Float(height)))>>

(* a variant that puts the new tuple in front of its group *)
group_add_front(acc, img_id, annotation_info) ==
    IF ~DictHas(acc, img_id) \/ Len(DictGet(acc, img_id)) = 0
    THEN DictSet(acc, img_id, <<annotation_info>>)
    ELSE DictSet(acc, img_id, <<annotation_info>> \o DictGet(acc, img_id))

(* __convert_annotations, lines 144-150: add one tuple to its image's group *)
group_add(acc, img_id, annotation_info) ==
    IF ~DictHas(acc, img_id) \/ Len(DictGet(acc, img_id)) = 0
    THEN DictSet(acc, img_id, <<annotation_info>>)
    ELSE DictSet(acc, img_id, Append(DictGet(acc, img_id), annotation_info))

(* a variant without the key test *)
has_annotations_key_any(lbl) == TRUE

(* the `annotations` key test of line 131 *)
has_annotations_key(lbl) == lbl.has_annotations

(* a variant of the loop that skips an annotation of an unknown image *)
RECURSIVE convert_loop_skip(_, _, _, _)
convert_loop_skip(info, anns, i, acc) ==
    IF i > Len(anns) THEN [error |-> NoError, dict |-> acc]
    ELSE IF ~DictHas(info, anns[i].image_id)
    THEN convert_loop_skip(info, anns, i + 1, acc)
    ELSE LET img_info == DictGet(info, anns[i].image_id)
             yolo_box == convert_bbox(anns[i].bbox, img_info[2], img_info[3])
             annotation_info == <<img_info[1], anns[i].category_id, yolo_box>>
         IN  convert_loop_skip(info, anns, i + 1,
                DictSet(acc, anns[i].image_id,
                    IF DictHas(acc, anns[i].image_id)
                    THEN Append(DictGet(acc, anns[i].image_id), annotation_info)
                    ELSE <<annotation_info>>))

(* __convert_annotations, the loop of lines 133-150.  images_info.get of   *)
(* an unknown id is None, and None[0] raises TypeError.                    *)
RECURSIVE convert_loop(_, _, _, _)
convert_loop(info, anns, i, acc) ==
    IF i > Len(anns) THEN [error |-> NoError, dict |-> acc]
    ELSE IF ~DictHas(info, anns[i].image_id)
    THEN [error |-> Raise("TypeError", "convert_annotations"), dict |-> acc]
    ELSE LET img_info == DictGet(info, anns[i].image_id)
             yolo_box == convert_bbox(anns[i].bbox, img_info[2], img_info[3])
             annotation_info == <<img_info[1], anns[i].category_id, yolo_box>>
         IN  convert_loop(info, anns, i + 1,
                          group_add(acc, anns[i].image_id, annotation_info))

(* a variant that resolves every category_id while aggregating *)
convert_annotations_checked(lbl, info) ==
    IF ~lbl.has_annotations
       \/ \E k \in DOMAIN lbl.annotations :
            ~DictHas(categories(lbl), lbl.annotations[k].category_id)
    THEN [error |-> Raise("ValueError", "convert_annotations"), dict |-> <<>>]
    ELSE convert_loop(info, lbl.annotations, 1, <<>>)

convert_annotations(lbl, info) ==
    IF ~has_annotations_key(lbl)
    THEN [error |-> Raise("ValueError", "convert_annotations"), dict |-> <<>>]
    ELSE convert_loop(info, lbl.annotations, 1, <<>>)

(* a variant that writes the COCO id, shifted to start at 0 *)
class_index_raw(id_name_map, name_list, coco_id) == coco_id - 1

(* __save_txt_file, lines 166-169: the line of one obj; its first field is *)
(* -1 when list.index raises ValueError.                                   *)
class_index(id_name_map, name_list, coco_id) ==
    ListIndex(name_list, DictGet(id_name_map, coco_id))

(* line 168: the renderings the four floats of a box can give *)
format_box(yolo_box) ==
    { <<cx, cy, w, h>> :
        cx \in Format6(yolo_box[1]), cy \in Format6(yolo_box[2]),
        w \in Format6(yolo_box[3]), h \in Format6(yolo_box[4]) }

----------------------------------------------------------------------------
(* The run: Coco2Yolo(json_file_path, output_path).convert(), one action   *)
(* per method call of __init__ and convert, and one per step of the write  *)
(* loop of __save_txt_file.                                                *)

(* the guards of the write loop of __save_txt_file *)
SaveOpenGuard ==
    pc = "save_txt_file" /\ gi <= Len(annotations_dict) /\ oi = 0

SaveWriteGuard ==
    /\ pc = "save_txt_file"
    /\ gi <= Len(annotations_dict)
    /\ oi >= 1
    /\ oi <= Len(annotations_dict[gi][2])

SaveReturnGuard ==
    pc = "save_txt_file" /\ gi > Len(annotations_dict)

Fail(e) ==
    /\ pc' = "error"
    /\ err' = e

(* __check_json_and_dir *)
CheckJsonAndDir ==
    /\ pc = "check_json_and_dir"
    /\ IF ~ExistsAttr(json_file)
       THEN /\ Fail(Raise("ValueError", "check_json_and_dir"))
            /\ UNCHANGED dir_exists
       ELSE /\ dir_exists' = TRUE       \* mkdir(exist_ok=True, parents=True)
            /\ pc' = "get_labels"
            /\ UNCHANGED err
    /\ UNCHANGED <<json_file, dir_before, fs, fs_before, labels,
                   coco_id_name_map, coco_name_list, images_info,
                   annotations_dict, gi, oi>>

(* __get_labels: open() raises FileNotFoundError on a missing path *)
GetLabels ==
    /\ pc = "get_labels"
    /\ IF ~json_file.exists
       THEN /\ Fail(Raise("FileNotFoundError", "get_labels"))
            /\ UNCHANGED labels
       ELSE /\ labels' = json_file.doc
            /\ pc' = "categories"
            /\ UNCHANGED err
    /\ UNCHANGED <<json_file, dir_exists, dir_before, fs, fs_before,
                   coco_id_name_map, coco_name_list, images_info,
                   annotations_dict, gi, oi>>

(* __init__, lines 34-35 *)
Categories ==
    /\ pc = "categories"
    /\ coco_id_name_map' = categories(labels)
    /\ coco_name_list' = DictValues(coco_id_name_map')
    /\ pc' = "print_info"
    /\ UNCHANGED <<json_file, dir_exists, dir_before, fs, fs_before, labels,
                   images_info, annotations_dict, gi, oi, err>>

(* __print_info: prints the sizes of the keys that are present; a missing  *)
(* key is skipped, so nothing is raised.  __init__ returns.                *)
PrintInfo ==
    /\ pc = "print_info"
    /\ pc' = "load_images_info"
    /\ UNCHANGED <<json_file, dir_exists, dir_before, fs, fs_before, labels,
                   coco_id_name_map, coco_name_list, images_info,
                   annotations_dict, gi, oi, err>>

(* convert, line 177 *)
LoadImagesInfo ==
    /\ pc = "load_images_info"
    /\ images_info' = load_images_info(labels)
    /\ pc' = "convert_annotations"
    /\ UNCHANGED <<json_file, dir_exists, dir_before, fs, fs_before, labels,
                   coco_id_name_map, coco_name_list, annotations_dict,
                   gi, oi, err>>

(* convert, line 178 *)
ConvertAnnotations ==
    /\ pc = "convert_annotations"
    /\ LET r == convert_annotations(labels, images_info)
       IN  IF r.error # NoError
           THEN /\ Fail(r.error)
                /\ UNCHANGED <<annotations_dict, gi>>
           ELSE /\ annotations_dict' = r.dict
                /\ gi' = 1
                /\ pc' = "save_txt_file"
                /\ UNCHANGED err
    /\ UNCHANGED <<json_file, dir_exists, dir_before, fs, fs_before, labels,
                   coco_id_name_map, coco_name_list, images_info, oi>>

(* __save_txt_file, lines 162-164: the next group's file is opened 'w',    *)
(* which creates or truncates it.                                          *)
group_value(ad, g) == ad[g][2]

group_filename(ad, g) == TxtName(group_value(ad, g)[1][1])

SaveOpen ==
    /\ SaveOpenGuard
    /\ LET filename == group_filename(annotations_dict, gi)
       IN  fs' = [f \in DOMAIN fs \cup {filename} |->
                    IF f = filename THEN <<>> ELSE fs[f]]
    /\ oi' = 1
    /\ UNCHANGED <<pc, json_file, dir_exists, dir_before, fs_before, labels,
                   coco_id_name_map, coco_name_list, images_info,
                   annotations_dict, gi, err>>

(* __save_txt_file, lines 165-170: one obj of the open group *)
SaveWrite ==
    /\ SaveWriteGuard
    /\ LET value == group_value(annotations_dict, gi)
           filename == group_filename(annotations_dict, gi)
           obj == value[oi]
           category_id == class_index(coco_id_name_map, coco_name_list, obj[2])
       IN  IF category_id < 0
           THEN /\ Fail(Raise("ValueError", "save_txt_file"))
                /\ UNCHANGED <<fs, gi, oi>>
           ELSE /\ \E box \in format_box(obj[3]) :
                     fs' = [fs EXCEPT ![filename] =
                                Append(@, <<category_id>> \o box)]
                /\ IF oi < Len(value)
                   THEN oi' = oi + 1 /\ gi' = gi
                   ELSE oi' = 0 /\ gi' = gi + 1
                /\ UNCHANGED <<pc, err>>
    /\ UNCHANGED <<json_file, dir_exists, dir_before, fs_before, labels,
                   coco_id_name_map, coco_name_list, images_info,
                   annotations_dict>>

(* __save_txt_file and convert return *)
SaveReturn ==
    /\ SaveReturnGuard
    /\ pc' = "done"
    /\ UNCHANGED <<json_file, dir_exists, dir_before, fs, fs_before, labels,
                   coco_id_name_map, coco_name_list, images_info,
                   annotations_dict, gi, oi, err>>

Next ==
    \/ CheckJsonAndDir
    \/ GetLabels
    \/ Categories
    \/ PrintInfo
    \/ LoadImagesInfo
    \/ ConvertAnnotations
    \/ SaveOpen
    \/ SaveWrite
    \/ SaveReturn

----------------------------------------------------------------------------
(* Inputs.                                                                 *)

SeqsUpTo(S, n) == UNION {[1..k -> S] : k \in 0..n}

Image(id, file_name, width, height) ==
    [id |-> id, file_name |-> file_name, width |-> width, height |-> height]

Category(id, name) == [id |-> id, name |-> name]

Annotation(image_id, category_id, bbox) ==
    [image_id |-> image_id, category_id |-> category_id, bbox |-> bbox]

Document(images, cats, annotations) ==
    [images |-> images, categories |-> cats, annotations |-> annotations,
     has_annotations |-> TRUE]

(* a document without the `annotations` key *)
WithoutAnnotations(images, cats) ==
    [images |-> images, categories |-> cats, annotations |-> <<>>,
     has_annotations |-> FALSE]

NoDocument == WithoutAnnotations(<<>>, <<>>)

EmptyFs == [f \in {} |-> <<>>]

(* a label file left in the output folder by an earlier run *)
StaleFs == [f \in {<<"p", ".", "t", "x", "t">>} |-> <<<<7, 1, 1, 1, 1>>>>]

ExampleBox == <<10, 20, 30, 40>>

(* the state after Path() of both arguments, before __check_json_and_dir *)
InitOf(files) ==
    /\ pc = "check_json_and_dir"
    /\ json_file \in files
    /\ dir_before \in BOOLEAN
    /\ dir_exists = dir_before
    /\ fs_before = IF dir_before THEN StaleFs ELSE EmptyFs
    /\ fs = fs_before
    /\ labels = NoDocument
    /\ coco_id_name_map = <<>>
    /\ coco_name_list = <<>>
    /\ images_info = <<>>
    /\ annotations_dict = <<>>
    /\ gi = 0
    /\ oi = 0
    /\ err = NoError

MissingFile == [exists |-> FALSE, doc |-> NoDocument]

FilesOf(docs) == {[exists |-> TRUE, doc |-> d] : d \in docs} \cup {MissingFile}

(* Spec: documents for the error paths: missing file, missing key,         *)
(* unknown image id (3), undeclared category id (9), empty sequences.      *)
ErrImageTables ==
    { <<>>,
      <<Image(1, <<"p", ".", "j">>, 100, 200)>>,
      <<Image(1, <<"p", ".", "j">>, 100, 200),
        Image(2, <<"q", ".", "j">>, 100, 200)>>,
      <<Image(1, <<"p", ".", "j">>, 100, 200),
        Image(2, <<"d", "/", "p", ".", "j">>, 100, 200)>> }

ErrCategories == SeqsUpTo({Category(5, "cat")}, 1)

ErrAnnotations ==
    { Annotation(i, c, ExampleBox) : i \in {1, 2, 3}, c \in {5, 9} }

ErrDocuments ==
    { Document(im, ct, an) :
        im \in ErrImageTables,
        ct \in ErrCategories,
        an \in SeqsUpTo(ErrAnnotations, MaxAnns) }
    \cup
    { WithoutAnnotations(im, ct) :
        im \in ErrImageTables, ct \in ErrCategories }

Init == InitOf(FilesOf(ErrDocuments))

Spec == Init /\ [][Next]_vars

(* SpecFiles: documents for the output files: two image ids, file names   *)
(* whose stems coincide or differ, annotations of both images interleaved. *)
OtherBox == <<0, 0, 50, 100>>

FileImages ==
    { Image(1, <<"d", "/", "p", ".", "j">>, 100, 200),
      Image(1, <<"q", ".", "j">>, 100, 200),
      Image(2, <<"p", ".", "g">>, 100, 200),
      Image(2, <<"q", ".", "j">>, 100, 200) }

FileAnnotations ==
    { Annotation(i, c[1], c[2]) :
        i \in {1, 2}, c \in { <<5, ExampleBox>>, <<2, OtherBox>> } }

FileDocuments ==
    { Document(im, <<Category(5, "cat"), Category(2, "dog")>>, an) :
        im \in SeqsUpTo(FileImages, MaxFileImages),
        an \in SeqsUpTo(FileAnnotations, MaxFileAnns) }

InitFiles == InitOf(FilesOf(FileDocuments))

SpecFiles == InitFiles /\ [][Next]_vars

(* SpecCat: documents for the class index: every sequence of categories    *)
(* over three ids and three names (repeated ids and names included), one   *)
(* image, at most one annotation.                                          *)
CatCategories ==
    { Category(i, n) : i \in {5, 2, 7}, n \in {"cat", "dog", "bird"} }

CatDocuments ==
    { Document(<<Image(1, <<"p", ".", "j">>, 100, 200)>>, ct, an) :
        ct \in SeqsUpTo(CatCategories, MaxCats),
        an \in SeqsUpTo({ Annotation(1, c, ExampleBox) : c \in {5, 2, 7} }, 1) }

InitCat == InitOf(FilesOf(CatDocuments))

SpecCat == InitCat /\ [][Next]_vars

(* SpecBox: documents for the box arithmetic: one image of any size up to  *)
(* MaxDim (and 100 x 200, and 64 x 320, where quotients fall midway        *)
(* between two millionths), one annotation with any bbox up to MaxCoord    *)
(* (and the example box, and one left of the image).                       *)
BoxDims ==
    ((1..MaxDim) \X (1..MaxDim)) \cup { <<100, 200>>, <<64, 320>> }

BoxBoxes ==
    [1..4 -> 0..MaxCoord] \cup { ExampleBox, <<-3, 0, 2, 1>> }

BoxDocuments ==
    { Document(<<Image(1, <<"p", ".", "j">>, d[1], d[2])>>,
               <<Category(5, "cat")>>,
               <<Annotation(1, 5, b)>>) :
        d \in BoxDims, b \in BoxBoxes }

InitBox == InitOf(FilesOf(BoxDocuments))

SpecBox == InitBox /\ [][Next]_vars

----------------------------------------------------------------------------
(* The input document as the properties read it.  These definitions state  *)
(* what the output should be from the document alone; they use none of     *)
(* the dicts and lists the run builds.                                     *)

Doc == json_file.doc

Anns == Doc.annotations

Cats == Doc.categories

ImageIds == { Doc.images[i].id : i \in DOMAIN Doc.images }

CategoryIds == { Cats[i].id : i \in DOMAIN Cats }

Running == pc \notin {"done", "error"}

(* some action of Next can be taken: the guard of one of them holds *)
CanStep ==
    \/ pc \in {"check_json_and_dir", "get_labels", "categories", "print_info",
               "load_images_info", "convert_annotations"}
    \/ SaveOpenGuard
    \/ SaveWriteGuard
    \/ SaveReturnGuard

(* the record an image id resolves to: the last one declared with it *)
ImageOf(g) ==
    Doc.images[CHOOSE i \in DOMAIN Doc.images :
        /\ Doc.images[i].id = g
        /\ \A j \in DOMAIN Doc.images : Doc.images[j].id = g => j <= i]

OutputName(g) == TxtName(ImageOf(g).file_name)

(* image groups: the image ids the annotations reference *)
GroupIds == { Anns[k].image_id : k \in DOMAIN Anns }

Members(g) == { k \in DOMAIN Anns : Anns[k].image_id = g }

FirstOf(g) == CHOOSE k \in Members(g) : \A m \in Members(g) : k <= m

Nth(S, j) == CHOOSE k \in S : Cardinality({ m \in S : m <= k }) = j

(* category slots: one per declared id, at the id's first declaration,     *)
(* holding the name of the id's last declaration                           *)
IdSlots ==
    { i \in DOMAIN Cats : \A j \in 1..(i - 1) : Cats[j].id # Cats[i].id }

FinalName(c) ==
    Cats[CHOOSE i \in DOMAIN Cats :
        /\ Cats[i].id = c
        /\ \A j \in DOMAIN Cats : Cats[j].id = c => j <= i].name

SlotIndex(c) ==
    LET same == { i \in IdSlots : FinalName(Cats[i].id) = FinalName(c) }
        first == CHOOSE i \in same : \A j \in same : i <= j
    IN  Cardinality({ i \in IdSlots : i < first })

(* names with duplicates collapsed, first occurrence kept *)
NameFirsts ==
    { i \in DOMAIN Cats : \A j \in 1..(i - 1) : Cats[j].name # Cats[i].name }

DedupIndex(n) ==
    LET first == CHOOSE i \in NameFirsts : Cats[i].name = n
    IN  Cardinality({ i \in NameFirsts : i < first })

UniqueIds ==
    \A i, j \in DOMAIN Cats : i # j => Cats[i].id # Cats[j].id

UniqueNames ==
    \A i, j \in DOMAIN Cats : i # j => Cats[i].name # Cats[j].name

DeclaredAt(c) == CHOOSE i \in DOMAIN Cats : Cats[i].id = c

(* v millionths is a six-decimal rendering of n / d: no other multiple of  *)
(* a millionth is nearer to n / d                                          *)
NearestMillionth(v, n, d) == 2 * Abs(v * d - n * Pow10(Decimals)) <= d

(* box holds (x + w/2)/W, (y + h/2)/H, w/W, h/H, in that order *)
BoxMatches(box, bbox, W, H) ==
    /\ Len(box) = 4
    /\ NearestMillionth(box[1], 2 * bbox[1] + bbox[3], 2 * W)
    /\ NearestMillionth(box[2], 2 * bbox[2] + bbox[4], 2 * H)
    /\ NearestMillionth(box[3], bbox[3], W)
    /\ NearestMillionth(box[4], bbox[4], H)

(* line is the output line of annotation k *)
LineMatches(line, k) ==
    /\ Len(line) = 5
    /\ Anns[k].category_id \in CategoryIds
    /\ line[1] = SlotIndex(Anns[k].category_id)
    /\ BoxMatches(SubSeq(line, 2, 5), Anns[k].bbox,
                  ImageOf(Anns[k].image_id).width,
                  ImageOf(Anns[k].image_id).height)

(* content is the lines of the annotations S, one line each, in the order  *)
(* of the input sequence                                                   *)
HoldsLines(content, S) ==
    /\ Len(content) = Cardinality(S)
    /\ \A j \in 1..Len(content) : LineMatches(content[j], Nth(S, j))

(* the file of annotation k and its line there, when every annotation of   *)
(* the document belongs to one image                                       *)
WrittenLine(k) == fs[OutputName(Anns[k].image_id)][k]

----------------------------------------------------------------------------
(* C1: the four box values written for an annotation with bbox (x, y, w,   *)
(* h) on an image of positive size W x H are (x + w/2)/W, (y + h/2)/H,     *)
(* w/W, h/H, in that order, each rendered as a nearest number of six       *)
(* decimals, not clamped to [0, 1]; bbox [10, 20, 30, 40] with W = 100,    *)
(* H = 200 is written as 0.250000 0.200000 0.300000 0.200000.              *)
C1_BoxValues ==
    pc = "done" =>
        \A k \in DOMAIN Anns :
            LET img == ImageOf(Anns[k].image_id)
            IN  /\ Len(WrittenLine(k)) = 5
                /\ BoxMatches(SubSeq(WrittenLine(k), 2, 5),
                              Anns[k].bbox, img.width, img.height)
                /\ (Anns[k].bbox = ExampleBox /\ img.width = 100 /\ img.height = 200)
                       => SubSeq(WrittenLine(k), 2, 5) =
                              <<250000, 200000, 300000, 200000>>

C1_Witness ==
    /\ pc = "done"
    /\ Len(Anns) = 1
    /\ Anns[1].bbox = ExampleBox
    /\ ImageOf(1).width = 100
    /\ ImageOf(1).height = 200
    /\ fs[OutputName(1)] = << <<0, 250000, 200000, 300000, 200000>> >>

(* C2: with unique category ids and unique category names, the class      *)
(* index written for an annotation is the zero-based position of its       *)
(* category in the declared `categories` sequence, whatever the id values. *)
C2_DeclarationOrder ==
    (pc = "done" /\ UniqueIds /\ UniqueNames) =>
        \A k \in DOMAIN Anns :
            /\ Anns[k].category_id \in CategoryIds
            /\ WrittenLine(k)[1] = DeclaredAt(Anns[k].category_id) - 1

C2_Witness ==
    /\ pc = "done"
    /\ Cats = <<Category(5, "cat"), Category(2, "dog")>>
    /\ Len(Anns) = 1
    /\ Anns[1].category_id = 2
    /\ WrittenLine(1)[1] = 1

(* C3, as stated: the class index of a category_id is the position of its  *)
(* name in the list of category names in document order with duplicate     *)
(* names collapsed to one slot, so the indices are dense (ids unique).     *)
C3_Original ==
    (pc = "done" /\ UniqueIds) =>
        \A k \in DOMAIN Anns :
            /\ Anns[k].category_id \in CategoryIds
            /\ WrittenLine(k)[1] = DedupIndex(FinalName(Anns[k].category_id))

(* C3, amended: the class index of a category_id is the zero-based         *)
(* position of the first slot holding its name in the list of names with   *)
(* one slot per declared id (a duplicate name keeps its own slot; an id    *)
(* declared again keeps its first slot and takes its last name): two ids   *)
(* sharing a name get the index of the first, and a name declared after a  *)
(* duplicated name keeps its position in the list with the duplicates, so *)
(* the indices used may have gaps.                                         *)
C3_Amended ==
    pc = "done" =>
        \A k \in DOMAIN Anns :
            /\ Anns[k].category_id \in CategoryIds
            /\ WrittenLine(k)[1] = SlotIndex(Anns[k].category_id)

C3_Witness ==
    /\ pc = "done"
    /\ Cats = <<Category(5, "cat"), Category(2, "cat"), Category(7, "dog")>>
    /\ Len(Anns) = 1
    /\ Anns[1].category_id = 7
    /\ WrittenLine(1)[1] = 2

(* C4: if any annotation references an image_id that is not in `images`,   *)
(* convert raises an error and halts: the annotation is not skipped and no *)
(* output file is created or modified, wherever the annotation sits.       *)
UnknownImage ==
    /\ json_file.exists
    /\ Doc.has_annotations
    /\ \E k \in DOMAIN Anns : Anns[k].image_id \notin ImageIds

C4_UnknownImageHalts ==
    UnknownImage =>
        /\ pc \notin {"save_txt_file", "done"}
        /\ fs = fs_before
        /\ pc = "error" => err = Raise("TypeError", "convert_annotations")
        /\ Running => CanStep

C4_Witness ==
    /\ pc = "error"
    /\ UnknownImage
    /\ Len(Anns) = 3
    /\ Anns[1].image_id \in ImageIds
    /\ Anns[2].image_id \in ImageIds
    /\ Anns[1].category_id \in CategoryIds
    /\ fs_before = StaleFs

(* C5, as stated: an annotation with an undeclared category_id makes the   *)
(* Transformer/Aggregator fail, before the Emitter: when the error is      *)
(* raised no output file has been opened, truncated or written.            *)
UnknownCategory ==
    /\ json_file.exists
    /\ Doc.has_annotations
    /\ \A k \in DOMAIN Anns : Anns[k].image_id \in ImageIds
    /\ \E k \in DOMAIN Anns : Anns[k].category_id \notin CategoryIds

C5_Original ==
    (UnknownCategory /\ pc = "error") =>
        /\ err.at = "convert_annotations"
        /\ fs = fs_before

(* the first annotation, in the order the Emitter writes, whose            *)
(* category_id is undeclared                                               *)
EmitsBefore(a, b) ==
    \/ FirstOf(Anns[a].image_id) < FirstOf(Anns[b].image_id)
    \/ Anns[a].image_id = Anns[b].image_id /\ a < b

Offender ==
    CHOOSE k \in DOMAIN Anns :
        /\ Anns[k].category_id \notin CategoryIds
        /\ \A m \in DOMAIN Anns :
             (Anns[m].category_id \notin CategoryIds /\ m # k) => EmitsBefore(k, m)

AtFailure ==
    LET g == Anns[Offender].image_id
        reached == { h \in GroupIds : FirstOf(h) <= FirstOf(g) }
        opened == { OutputName(h) : h \in reached }
    IN  /\ DOMAIN fs = DOMAIN fs_before \cup opened
        /\ \A f \in DOMAIN fs \ opened : fs[f] = fs_before[f]
        /\ HoldsLines(fs[OutputName(g)], { k \in Members(g) : k < Offender })
        /\ \A h \in reached :
             (\A h2 \in reached :
                 (h2 # h /\ OutputName(h2) = OutputName(h))
                     => FirstOf(h2) < FirstOf(h))
             => (h = g \/ HoldsLines(fs[OutputName(h)], Members(h)))

(* C5, amended: an annotation with an undeclared category_id (every        *)
(* image_id being known) makes the Emitter fail, after the                 *)
(* Transformer/Aggregator has completed: when the error is raised, at the  *)
(* first such annotation in writing order, the file of its group has been  *)
(* opened and truncated and holds the lines of the group's annotations     *)
(* before it, the files of the groups before it have been written in full  *)
(* (a later group of the same file name replacing an earlier one), and no  *)
(* other file has been touched.                                            *)
C5_Amended ==
    UnknownCategory =>
        /\ pc # "done"
        /\ pc = "error" =>
              (err = Raise("ValueError", "save_txt_file") /\ AtFailure)
        /\ Running => CanStep

C5_Witness ==
    /\ pc = "error"
    /\ UnknownCategory
    /\ Len(Anns) = 3
    /\ Anns[1].image_id # Anns[2].image_id
    /\ OutputName(Anns[1].image_id) # OutputName(Anns[2].image_id)
    /\ Anns[3].image_id = Anns[2].image_id
    /\ Offender = 3
    /\ Len(fs[OutputName(Anns[1].image_id)]) = 1
    /\ Len(fs[OutputName(Anns[2].image_id)]) = 1

(* C6, as stated: after a successful convert every image group has its    *)
(* own file <stem of the image's file_name>.txt holding exactly the lines  *)
(* of that group's annotations and nothing of another group (stated here   *)
(* for documents whose images have pairwise distinct file names).          *)
DistinctFileNames ==
    \A i, j \in DOMAIN Doc.images :
        i # j => Doc.images[i].file_name # Doc.images[j].file_name

C6_Original ==
    (pc = "done" /\ DistinctFileNames) =>
        \A g \in GroupIds :
            /\ OutputName(g) \in DOMAIN fs
            /\ HoldsLines(fs[OutputName(g)], Members(g))

(* C7: a document without the `annotations` key makes convert raise        *)
(* before any output file is written; a document whose `annotations` is    *)
(* present and empty makes convert complete without error, writing no      *)
(* file.                                                                   *)
C7_AbsentOrEmpty ==
    /\ (json_file.exists /\ ~Doc.has_annotations) =>
          /\ pc \notin {"save_txt_file", "done"}
          /\ fs = fs_before
          /\ pc = "error" => err = Raise("ValueError", "convert_annotations")
          /\ Running => CanStep
    /\ (json_file.exists /\ Doc.has_annotations /\ Anns = <<>>) =>
          /\ pc # "error"
          /\ fs = fs_before
          /\ Running => CanStep

C7_Witness ==
    /\ pc = "error"
    /\ json_file.exists
    /\ ~Doc.has_annotations
    /\ Doc.images # <<>>
    /\ Cats # <<>>
    /\ fs_before = StaleFs

(* C8, as stated: with `categories` empty or `images` empty, construction  *)
(* plus convert never completes successfully, whatever `annotations`       *)
(* holds, the empty list included.                                         *)
EmptyTable == json_file.exists /\ (Cats = <<>> \/ Doc.images = <<>>)

C8_Original == EmptyTable => pc # "done"

(* C8, amended: with `categories` empty or `images` empty, construction    *)
(* plus convert never completes successfully when `annotations` is absent  *)
(* or holds at least one annotation; with `annotations` the empty list it  *)
(* completes without error and writes no file.                             *)
C8_Amended ==
    EmptyTable =>
        /\ (~Doc.has_annotations \/ Anns # <<>>) =>
              (pc # "done" /\ (Running => CanStep))
        /\ (Doc.has_annotations /\ Anns = <<>>) =>
              (pc # "error" /\ fs = fs_before /\ (Running => CanStep))

C8_Witness ==
    /\ pc = "error"
    /\ Cats = <<>>
    /\ Doc.images # <<>>
    /\ Anns # <<>>
    /\ err = Raise("ValueError", "save_txt_file")

(* C9: in every output file there is one line per annotation of the group  *)
(* and the lines follow the order of the annotations in the input          *)
(* sequence, also when annotations of different images are interleaved.    *)
C9_SourceOrder ==
    pc = "done" =>
        \A f \in DOMAIN fs :
            IF \E g \in GroupIds : OutputName(g) = f
            THEN \E g \in GroupIds :
                    OutputName(g) = f /\ HoldsLines(fs[f], Members(g))
            ELSE f \in DOMAIN fs_before /\ fs[f] = fs_before[f]

C9_Witness ==
    /\ pc = "done"
    /\ Len(Anns) = 3
    /\ Anns[1].image_id = 1
    /\ Anns[2].image_id = 2
    /\ Anns[3].image_id = 1
    /\ Anns[1].category_id # Anns[3].category_id
    /\ OutputName(1) # OutputName(2)
    /\ HoldsLines(fs[OutputName(1)], {1, 3})
    /\ fs[OutputName(1)][1] # fs[OutputName(1)][2]
    /\ HoldsLines(fs[OutputName(2)], {2})

(* C10, as stated: when the input JSON path does not exist, the existence  *)
(* check of the constructor raises, before the output folder is created    *)
(* and before the file is opened.                                          *)
C10_Original ==
    (~json_file.exists /\ pc = "error") =>
        /\ err = Raise("ValueError", "check_json_and_dir")
        /\ dir_exists = dir_before
        /\ fs = fs_before

====
